---- MODULE Spec2Model ----
(***************************************************************************)
(* The Lakbay-to-C++ transpiler of src/lakbay.py: compile_lakbay, the      *)
(* Lexer and the single-pass recursive-descent Transpiler.                 *)
(*                                                                         *)
(* Text is a sequence of one-character strings, so that prefixes, escapes  *)
(* and line breaks are things the checks can see.  The lexer takes one     *)
(* action per iteration of its main loop.  The parser takes one action per *)
(* iteration of its three statement-level loops (top level, class body,    *)
(* block); the Python call stack of the block constructs is the variable   *)
(* stack.  Expressions are computed by recursive operators that follow the *)
(* precedence-climbing methods one for one.                                *)
(***************************************************************************)
EXTENDS Integers, Sequences, FiniteSets, TLC

\* ------------------------------------------------------------------ bounds
\* Statements drawn for a method body, members drawn for a class body,
\* items drawn at top level, trailing characters cut off a source text, and
\* iterations of the statement loop followed once it stops making progress,
\* characters of a comment after its '//'.
MaxStmts == 1
MaxMembers == 1
MaxTop == 2
MaxCut == 5
MaxSpin == 2
MaxCommentLen == 1
MaxOps == 2
MaxShape == 2

\* -------------------------------------------------------------------- text
\* '\n'.join(lines)
RECURSIVE Join(_)
Join(lines) ==
    IF lines = <<>> THEN <<>>
    ELSE IF Len(lines) = 1 THEN lines[1]
    ELSE lines[1] \o <<"\n">> \o Join(Tail(lines))

StartsWith(t, p) ==
    Len(t) >= Len(p) /\ SubSeq(t, 1, Len(p)) = p

Occurs(p, t) ==
    \E i \in 0..(Len(t) - Len(p)) : SubSeq(t, i + 1, i + Len(p)) = p

DigitChar(d) ==
    <<"0", "1", "2", "3", "4", "5", "6", "7", "8", "9">>[d + 1]

\* str(n) of a non-negative integer
RECURSIVE ToStr(_)
ToStr(n) ==
    IF n < 10 THEN <<DigitChar(n)>> ELSE ToStr(n \div 10) \o <<DigitChar(n % 10)>>

\* '    ' * n
RECURSIVE Spaces(_)
Spaces(n) ==
    IF n <= 0 THEN <<>> ELSE <<" ", " ", " ", " ">> \o Spaces(n - 1)

\* ------------------------------------------------------------ the lexer
Space == {" ", "\n", "\t", "\r"}
Digit == {"0", "1", "2", "3", "4", "5", "6", "7", "8", "9"}
Lower == {"a", "b", "c", "d", "e", "f", "g", "h", "i", "j", "k", "l", "m", "n", "o", "p", "q", "r", "s", "t", "u", "v", "w", "x", "y", "z"}
Upper == {"A", "B", "C", "D", "E", "F", "G", "H", "I", "J", "K", "L", "M", "N", "O", "P", "Q", "R", "S", "T", "U", "V", "W", "X", "Y", "Z"}
Alpha == Lower \cup Upper
IdentStart == Alpha \cup {"_"}
IdentPart == Alpha \cup Digit \cup {"_"}
NumberPart == Digit \cup {"."}

keywords ==
    { <<"c", "l", "a", "s", "s">>, <<"e", "x", "t", "e", "n", "d", "s">>, <<"f", "u", "n", "c">>, <<"r", "e", "t", "u", "r", "n">>, <<"i", "f">>, <<"e", "l", "s", "e">>,
      <<"w", "h", "i", "l", "e">>, <<"f", "o", "r">>, <<"n", "e", "w">>, <<"t", "h", "i", "s">>, <<"p", "u", "b", "l", "i", "c">>, <<"p", "r", "i", "v", "a", "t", "e">>,
      <<"i", "n", "t">>, <<"f", "l", "o", "a", "t">>, <<"s", "t", "r", "i", "n", "g">>, <<"b", "o", "o", "l">>, <<"v", "o", "i", "d">>, <<"a", "r", "r", "a", "y">>,
      <<"p", "r", "i", "n", "t">>, <<"t", "r", "u", "e">>, <<"f", "a", "l", "s", "e">> }

operators ==
    [ t \in {<<"=", "=">>, <<"!", "=">>, <<"<", "=">>, <<">", "=">>, <<"&", "&">>, <<"|", "|">>, <<"+", "+">>, <<"-", "-">>} |->
        CASE t = <<"=", "=">> -> "EQ" [] t = <<"!", "=">> -> "NEQ" [] t = <<"<", "=">> -> "LEQ"
          [] t = <<">", "=">> -> "GEQ" [] t = <<"&", "&">> -> "AND" [] t = <<"|", "|">> -> "OR"
          [] t = <<"+", "+">> -> "INC" [] t = <<"-", "-">> -> "DEC" ]

single_chars ==
    [ c \in {"+", "-", "*", "/", "=", "<", ">", "!", "(", ")", "{", "}", "[", "]", ";", ",", ".", ":"} |->
        CASE c = "+" -> "PLUS" [] c = "-" -> "MINUS" [] c = "*" -> "MULT"
          [] c = "/" -> "DIV" [] c = "=" -> "ASSIGN" [] c = "<" -> "LT"
          [] c = ">" -> "GT" [] c = "!" -> "NOT" [] c = "(" -> "LPAREN"
          [] c = ")" -> "RPAREN" [] c = "{" -> "LBRACE" [] c = "}" -> "RBRACE"
          [] c = "[" -> "LBRACKET" [] c = "]" -> "RBRACKET" [] c = ";" -> "SEMI"
          [] c = "," -> "COMMA" [] c = "." -> "DOT" [] c = ":" -> "COLON" ]

escape_chars(c) ==
    CASE c = "n" -> "\n" [] c = "t" -> "\t" [] c = "r" -> "\r"
      [] c = "\\" -> "\\" [] c = "\"" -> "\"" [] OTHER -> c

Token(type, value, ln) == [type |-> type, value |-> value, line |-> ln]

\* self.code[p] and self.code[p:p+2], p counted from 0 as in the source
At(c, p) == c[p + 1]
TwoAt(c, p) == SubSeq(c, p + 1, IF p + 2 <= Len(c) THEN p + 2 ELSE Len(c))

\* the position where an inner loop "while pos < len and code[pos] in set" stops
RECURSIVE ScanWhile(_, _, _)
ScanWhile(c, p, set) ==
    IF p < Len(c) /\ At(c, p) \in set THEN ScanWhile(c, p + 1, set) ELSE p

\* ScanComment as it would be if the comment took its line break with it
RECURSIVE ScanCommentWithBreak(_, _)
ScanCommentWithBreak(c, p) ==
    IF p < Len(c) /\ At(c, p) # "\n" THEN ScanCommentWithBreak(c, p + 1)
    ELSE IF p < Len(c) THEN p + 1 ELSE p

\* the comment loop: up to, and not including, the line break
RECURSIVE ScanComment(_, _)
ScanComment(c, p) ==
    IF p < Len(c) /\ At(c, p) # "\n" THEN ScanComment(c, p + 1) ELSE p

\* the string loop, from the character after the opening quote
RECURSIVE ScanString(_, _, _)
ScanString(c, p, acc) ==
    IF p < Len(c) /\ At(c, p) # "\""
    THEN IF At(c, p) = "\\" /\ p + 1 < Len(c)
         THEN ScanString(c, p + 2, Append(acc, escape_chars(At(c, p + 1))))
         ELSE ScanString(c, p + 1, Append(acc, At(c, p)))
    ELSE [pos |-> p, string |-> acc]

IsCommentStart(c, p) ==
    p < Len(c) - 1 /\ TwoAt(c, p) = <<"/", "/">>

\* which branch of the main loop takes the character at p: the first that matches
LexRule(c, p) ==
    IF At(c, p) \in Space THEN "space"
    ELSE IF IsCommentStart(c, p) THEN "comment"
    ELSE IF At(c, p) \in Digit THEN "number"
    ELSE IF At(c, p) \in IdentStart THEN "ident"
    ELSE IF At(c, p) = "\"" THEN "string"
    ELSE IF TwoAt(c, p) \in DOMAIN operators THEN "two_char"
    ELSE IF At(c, p) \in DOMAIN single_chars THEN "single"
    ELSE "skip"

\* ------------------------------------------------- the parser: the cursor
\* The text of a token type, as the error messages print it.
TypeText(ty) ==
    CASE ty = "KEYWORD" -> <<"K", "E", "Y", "W", "O", "R", "D">> [] ty = "IDENTIFIER" -> <<"I", "D", "E", "N", "T", "I", "F", "I", "E", "R">>
      [] ty = "NUMBER" -> <<"N", "U", "M", "B", "E", "R">> [] ty = "STRING" -> <<"S", "T", "R", "I", "N", "G">>
      [] ty = "EQ" -> <<"E", "Q">> [] ty = "NEQ" -> <<"N", "E", "Q">> [] ty = "LEQ" -> <<"L", "E", "Q">>
      [] ty = "GEQ" -> <<"G", "E", "Q">> [] ty = "AND" -> <<"A", "N", "D">> [] ty = "OR" -> <<"O", "R">>
      [] ty = "INC" -> <<"I", "N", "C">> [] ty = "DEC" -> <<"D", "E", "C">>
      [] ty = "PLUS" -> <<"P", "L", "U", "S">> [] ty = "MINUS" -> <<"M", "I", "N", "U", "S">> [] ty = "MULT" -> <<"M", "U", "L", "T">>
      [] ty = "DIV" -> <<"D", "I", "V">> [] ty = "ASSIGN" -> <<"A", "S", "S", "I", "G", "N">> [] ty = "LT" -> <<"L", "T">>
      [] ty = "GT" -> <<"G", "T">> [] ty = "NOT" -> <<"N", "O", "T">> [] ty = "LPAREN" -> <<"L", "P", "A", "R", "E", "N">>
      [] ty = "RPAREN" -> <<"R", "P", "A", "R", "E", "N">> [] ty = "LBRACE" -> <<"L", "B", "R", "A", "C", "E">>
      [] ty = "RBRACE" -> <<"R", "B", "R", "A", "C", "E">> [] ty = "LBRACKET" -> <<"L", "B", "R", "A", "C", "K", "E", "T">>
      [] ty = "RBRACKET" -> <<"R", "B", "R", "A", "C", "K", "E", "T">> [] ty = "SEMI" -> <<"S", "E", "M", "I">>
      [] ty = "COMMA" -> <<"C", "O", "M", "M", "A">> [] ty = "DOT" -> <<"D", "O", "T">> [] ty = "COLON" -> <<"C", "O", "L", "O", "N">>

\* current(): whether there is a token under the cursor, and its fields
HasCur(toks, p) == p < Len(toks)
current(toks, p) == toks[p + 1]
TypeAt(toks, p) == IF HasCur(toks, p) THEN current(toks, p).type ELSE "None"
ValueAt(toks, p) == IF HasCur(toks, p) THEN current(toks, p).value ELSE <<>>
IsKeyword(toks, p, word) == TypeAt(toks, p) = "KEYWORD" /\ ValueAt(toks, p) = word

\* The outcome of a parsing method: the cursor it leaves, the text it returns,
\* and the message of the exception it raised (empty: it returned).
Ok(p, v) == [pos |-> p, val |-> v, err |-> <<>>]
Raise(p, m) == [pos |-> p, val |-> <<>>, err |-> m]
Raised(r) == r.err # <<>>

\* the two messages of expect(), and the one Python gives for None.type
MismatchMessage(toks, p, ty) ==
    <<"L", "i", "n", "e", " ">> \o (IF HasCur(toks, p) THEN ToStr(current(toks, p).line) ELSE <<"?">>)
      \o <<":", " ", "E", "x", "p", "e", "c", "t", "e", "d", " ">> \o TypeText(ty) \o <<",", " ", "g", "o", "t", " ">>
      \o (IF HasCur(toks, p) THEN TypeText(current(toks, p).type) ELSE <<"E", "O", "F">>)

ValueMessage(toks, p, value) ==
    <<"L", "i", "n", "e", " ">> \o ToStr(current(toks, p).line) \o <<":", " ", "E", "x", "p", "e", "c", "t", "e", "d", " ", "'">> \o value
      \o <<"'", ",", " ", "g", "o", "t", " ", "'">> \o current(toks, p).value \o <<"'">>

NoneTypeMessage == <<"'", "N", "o", "n", "e", "T", "y", "p", "e", "'", " ", "o", "b", "j", "e", "c", "t", " ", "h", "a", "s", " ", "n", "o", " ", "a", "t", "t", "r", "i", "b", "u", "t", "e", " ", "'", "t", "y", "p", "e", "'">>

UnexpectedMessage(toks, p) ==
    <<"L", "i", "n", "e", " ">> \o ToStr(current(toks, p).line) \o <<":", " ", "U", "n", "e", "x", "p", "e", "c", "t", "e", "d", " ", "t", "o", "k", "e", "n", ":", " ">>
      \o TypeText(current(toks, p).type) \o <<" ">> \o current(toks, p).value

\* expect(token_type, value): value <<>> stands for value=None
expect(toks, p, ty, value) ==
    IF ~HasCur(toks, p) \/ current(toks, p).type # ty
    THEN Raise(p, MismatchMessage(toks, p, ty))
    ELSE IF value # <<>> /\ current(toks, p).value # value
    THEN Raise(p, ValueMessage(toks, p, value))
    ELSE Ok(p + 1, current(toks, p).value)

\* What follows a call that may raise: the exception goes on up, or F goes on
\* with what the call returned.
Bind(r, F(_)) == IF Raised(r) THEN r ELSE F(r)

\* ', '.join(args)
RECURSIVE JoinComma(_)
JoinComma(args) ==
    IF args = <<>> THEN <<>>
    ELSE IF Len(args) = 1 THEN args[1]
    ELSE args[1] \o <<",", " ">> \o JoinComma(Tail(args))

\* "if self.current() and self.current().type == 'COMMA': self.advance()"
SkipComma(toks, p) == IF TypeAt(toks, p) = "COMMA" THEN p + 1 ELSE p

\* ------------------------------------------------ the parser: expressions
RECURSIVE transpile_expression(_, _)
RECURSIVE transpile_unary(_, _)

\* The argument loop "while current and type != RPAREN: append(expression);
\* if COMMA: advance", followed by expect('RPAREN').  val is the list of
\* argument texts.
RECURSIVE ArgLoop(_, _, _)
ArgLoop(toks, p, args) ==
    IF HasCur(toks, p) /\ TypeAt(toks, p) # "RPAREN"
    THEN Bind(transpile_expression(toks, p),
              LAMBDA e : ArgLoop(toks, SkipComma(toks, e.pos), Append(args, e.val)))
    ELSE Bind(expect(toks, p, "RPAREN", <<>>), LAMBDA r : Ok(r.pos, args))

\* the branch of transpile_primary for 'new'
NewObject(toks, p) ==
    Bind(expect(toks, p + 1, "IDENTIFIER", <<>>), LAMBDA c :
      Bind(expect(toks, c.pos, "LPAREN", <<>>), LAMBDA l :
        Bind(ArgLoop(toks, l.pos, <<>>), LAMBDA a :
          Ok(a.pos, <<"n", "e", "w", " ">> \o c.val \o <<"(">> \o JoinComma(a.val) \o <<")">>))))

\* the branch of transpile_primary for '('
Parenthesized(toks, p) ==
    Bind(transpile_expression(toks, p + 1), LAMBDA e :
      Bind(expect(toks, e.pos, "RPAREN", <<>>), LAMBDA r :
        Ok(r.pos, <<"(">> \o e.val \o <<")">>)))

\* the text transpile_primary returns for a string token
StringLiteral(value) == <<"\"">> \o value \o <<"\"">>

transpile_primary(toks, p) ==
    IF ~HasCur(toks, p) THEN Raise(p, NoneTypeMessage)
    ELSE IF TypeAt(toks, p) = "NUMBER" THEN Ok(p + 1, ValueAt(toks, p))
    ELSE IF TypeAt(toks, p) = "STRING" THEN Ok(p + 1, StringLiteral(ValueAt(toks, p)))
    ELSE IF TypeAt(toks, p) = "IDENTIFIER" THEN Ok(p + 1, ValueAt(toks, p))
    ELSE IF IsKeyword(toks, p, <<"t", "h", "i", "s">>) THEN Ok(p + 1, <<"t", "h", "i", "s">>)
    ELSE IF IsKeyword(toks, p, <<"t", "r", "u", "e">>) THEN Ok(p + 1, <<"t", "r", "u", "e">>)
    ELSE IF IsKeyword(toks, p, <<"f", "a", "l", "s", "e">>) THEN Ok(p + 1, <<"f", "a", "l", "s", "e">>)
    ELSE IF IsKeyword(toks, p, <<"n", "e", "w">>) THEN NewObject(toks, p)
    ELSE IF TypeAt(toks, p) = "LPAREN" THEN Parenthesized(toks, p)
    ELSE Raise(p, UnexpectedMessage(toks, p))

\* the suffix loop of transpile_postfix, expr being the text so far
RECURSIVE PostfixLoop(_, _, _)
PostfixLoop(toks, p, expr) ==
    IF TypeAt(toks, p) = "DOT"
    THEN Bind(expect(toks, p + 1, "IDENTIFIER", <<>>), LAMBDA m :
           IF TypeAt(toks, m.pos) = "LPAREN"
           THEN Bind(ArgLoop(toks, m.pos + 1, <<>>), LAMBDA a :
                  PostfixLoop(toks, a.pos,
                              expr \o <<".">> \o m.val \o <<"(">> \o JoinComma(a.val) \o <<")">>))
           ELSE PostfixLoop(toks, m.pos, expr \o <<".">> \o m.val))
    ELSE IF TypeAt(toks, p) = "LPAREN"
    THEN Bind(ArgLoop(toks, p + 1, <<>>), LAMBDA a :
           PostfixLoop(toks, a.pos, expr \o <<"(">> \o JoinComma(a.val) \o <<")">>))
    ELSE IF TypeAt(toks, p) = "LBRACKET"
    THEN Bind(transpile_expression(toks, p + 1), LAMBDA i :
           Bind(expect(toks, i.pos, "RBRACKET", <<>>), LAMBDA r :
             PostfixLoop(toks, r.pos, expr \o <<"[">> \o i.val \o <<"]">>)))
    ELSE IF TypeAt(toks, p) = "ASSIGN"
    THEN Bind(transpile_expression(toks, p + 1), LAMBDA v :
           PostfixLoop(toks, v.pos, expr \o <<" ", "=", " ">> \o v.val))
    ELSE Ok(p, expr)

transpile_postfix(toks, p) ==
    Bind(transpile_primary(toks, p), LAMBDA e : PostfixLoop(toks, e.pos, e.val))

transpile_unary(toks, p) ==
    IF TypeAt(toks, p) \in {"MINUS", "NOT"}
    THEN Bind(transpile_unary(toks, p + 1), LAMBDA u :
           Ok(u.pos, (IF TypeAt(toks, p) = "MINUS" THEN <<"-">> ELSE <<"!">>) \o u.val))
    ELSE transpile_postfix(toks, p)

\* '(left op right)'
Paren(left, op, right) == <<"(">> \o left \o <<" ">> \o op \o <<" ">> \o right \o <<")">>

\* the operator text each binary level emits for a token type
OpText(ty) ==
    CASE ty = "MULT" -> <<"*">> [] ty = "DIV" -> <<"/">> [] ty = "PLUS" -> <<"+">>
      [] ty = "MINUS" -> <<"-">> [] ty = "LT" -> <<"<">> [] ty = "GT" -> <<">">>
      [] ty = "LEQ" -> <<"<", "=">> [] ty = "GEQ" -> <<">", "=">> [] ty = "EQ" -> <<"=", "=">>
      [] ty = "NEQ" -> <<"!", "=">> [] ty = "AND" -> <<"&", "&">> [] ty = "OR" -> <<"|", "|">>

\* LevelOps as it would be with the loops of transpile_term and
\* transpile_factor taking each other's operators
LevelOpsSwapped(level) ==
    CASE level = 1 -> {"OR"} [] level = 2 -> {"AND"} [] level = 3 -> {"EQ", "NEQ"}
      [] level = 4 -> {"LT", "GT", "LEQ", "GEQ"} [] level = 5 -> {"MULT", "DIV"}
      [] level = 6 -> {"PLUS", "MINUS"}

\* The six binary methods are one text with two things changed: the token
\* types the loop accepts and the method called for an operand.  Level 1 is
\* transpile_logical_or, 2 transpile_logical_and, 3 transpile_equality,
\* 4 transpile_comparison, 5 transpile_term, 6 transpile_factor, whose
\* operands are transpile_unary.
LevelOps(level) ==
    CASE level = 1 -> {"OR"} [] level = 2 -> {"AND"} [] level = 3 -> {"EQ", "NEQ"}
      [] level = 4 -> {"LT", "GT", "LEQ", "GEQ"} [] level = 5 -> {"PLUS", "MINUS"}
      [] level = 6 -> {"MULT", "DIV"}

RECURSIVE BinaryLevel(_, _, _)
RECURSIVE BinaryLoop(_, _, _, _)

Operand(toks, p, level) ==
    IF level = 6 THEN transpile_unary(toks, p) ELSE BinaryLevel(toks, p, level + 1)

\* "while current and current.type in ops: advance; right = operand();
\* left = (left op right)"
BinaryLoop(toks, p, left, level) ==
    IF TypeAt(toks, p) \in LevelOps(level)
    THEN Bind(Operand(toks, p + 1, level), LAMBDA r :
           BinaryLoop(toks, r.pos, Paren(left, OpText(TypeAt(toks, p)), r.val), level))
    ELSE Ok(p, left)

BinaryLevel(toks, p, level) ==
    Bind(Operand(toks, p, level), LAMBDA l : BinaryLoop(toks, l.pos, l.val, level))

transpile_logical_or(toks, p) == BinaryLevel(toks, p, 1)

transpile_expression(toks, p) == transpile_logical_or(toks, p)

convert_type(lakbay_type) ==
    CASE lakbay_type = <<"i", "n", "t">> -> <<"i", "n", "t">> [] lakbay_type = <<"f", "l", "o", "a", "t">> -> <<"f", "l", "o", "a", "t">>
      [] lakbay_type = <<"s", "t", "r", "i", "n", "g">> -> <<"s", "t", "r", "i", "n", "g">> [] lakbay_type = <<"b", "o", "o", "l">> -> <<"b", "o", "o", "l">>
      [] lakbay_type = <<"v", "o", "i", "d">> -> <<"v", "o", "i", "d">> [] OTHER -> lakbay_type

\* ------------------------------------- the parser: declarations, statements
\* What a step of the parser leaves: the cursor, the buffer, the indent and
\* the message of the exception it raised (empty: none).
Step(p, out, ind) == [pos |-> p, output |-> out, indent |-> ind, err |-> <<>>]
Throw(p, out, ind, m) == [pos |-> p, output |-> out, indent |-> ind, err |-> m]

\* What follows a call that may raise, in a method that has the buffer out and
\* the indent ind when the call is made.
Try(r, out, ind, F(_)) == IF Raised(r) THEN Throw(r.pos, out, ind, r.err) ELSE F(r)

\* write as it would be if the line were put in at the head of the buffer
writeAtHead(out, ind, text) == <<Spaces(ind) \o text>> \o out

\* write(code)
write(out, ind, text) == Append(out, Spaces(ind) \o text)

Preamble ==
    << <<"#", "i", "n", "c", "l", "u", "d", "e", " ", "<", "i", "o", "s", "t", "r", "e", "a", "m", ">">>, <<"#", "i", "n", "c", "l", "u", "d", "e", " ", "<", "s", "t", "r", "i", "n", "g", ">">>, <<"#", "i", "n", "c", "l", "u", "d", "e", " ", "<", "v", "e", "c", "t", "o", "r", ">">>,
       <<"u", "s", "i", "n", "g", " ", "n", "a", "m", "e", "s", "p", "a", "c", "e", " ", "s", "t", "d", ";">>, <<>> >>

MainFunction ==
    << <<"\n", "i", "n", "t", " ", "m", "a", "i", "n", "(", ")", " ", "{">>, <<" ", " ", " ", " ", "c", "o", "u", "t", " ", "<", "<", " ", "\"", "L", "a", "k", "b", "a", "y", " ", "P", "r", "o", "g", "r", "a", "m", " ", "R", "u", "n", "n", "i", "n", "g", ".", ".", ".", "\"", " ", "<", "<", " ", "e", "n", "d", "l", ";">>,
       <<" ", " ", " ", " ", "r", "e", "t", "u", "r", "n", " ", "0", ";">>, <<"}">> >>

\* the line transpile_class writes for 'class name [extends parent] {'
ClassLine(name, parent) ==
    <<"\n", "c", "l", "a", "s", "s", " ">> \o name \o (IF parent # <<>> THEN <<" ", ":", " ", "p", "u", "b", "l", "i", "c", " ">> \o parent ELSE <<>>) \o <<" ", "{">>

\* transpile_class from expect('LBRACE') up to the loop over the class body
ClassOpen(toks, p, out, ind, name, parent) ==
    Try(expect(toks, p, "LBRACE", <<>>), out, ind, LAMBDA b :
      Step(b.pos, write(write(out, ind, ClassLine(name, parent)), ind, <<"p", "u", "b", "l", "i", "c", ":">>), ind + 1))

\* transpile_class up to the loop over the class body
ClassHeader(toks, p, out, ind) ==
    Try(expect(toks, p, "KEYWORD", <<"c", "l", "a", "s", "s">>), out, ind, LAMBDA k :
      Try(expect(toks, k.pos, "IDENTIFIER", <<>>), out, ind, LAMBDA n :
        IF IsKeyword(toks, n.pos, <<"e", "x", "t", "e", "n", "d", "s">>)
        THEN Try(expect(toks, n.pos + 1, "IDENTIFIER", <<>>), out, ind, LAMBDA par :
               ClassOpen(toks, par.pos, out, ind, n.val, par.val))
        ELSE ClassOpen(toks, n.pos, out, ind, n.val, <<>>)))

\* the class name transpile_class holds while its body is translated
ClassNameAt(toks, p) == ValueAt(toks, p + 1)

\* the visibility branch of the class body loop
ClassVisibility(toks, p, out, ind) ==
    Try(expect(toks, p + 1, "COLON", <<>>), out, ind, LAMBDA c :
      Step(c.pos, write(out, ind - 1, ValueAt(toks, p) \o <<":">>), ind))

\* the end of a routine that has written its last line: expect(type), return
Closing(toks, p, out, ind, ty) ==
    Try(expect(toks, p, ty, <<>>), out, ind, LAMBDA r : Step(r.pos, out, ind))

\* ClassTail as it would be with the closing line written at the members' indent
ClassTailIndented(toks, p, out, ind) ==
    Closing(toks, p, write(out, ind, <<"}", ";">>), ind - 1, "RBRACE")

\* transpile_class after the loop
ClassTail(toks, p, out, ind) ==
    Closing(toks, p, write(out, ind - 1, <<"}", ";">>), ind - 1, "RBRACE")

\* transpile_property and transpile_var_declaration: the same text twice
Declaration(toks, p, out, ind) ==
    Try(expect(toks, p, "KEYWORD", <<>>), out, ind, LAMBDA t :
      Try(expect(toks, t.pos, "IDENTIFIER", <<>>), out, ind, LAMBDA v :
        IF TypeAt(toks, v.pos) = "ASSIGN"
        THEN Try(transpile_expression(toks, v.pos + 1), out, ind, LAMBDA e :
               Closing(toks, e.pos,
                       write(out, ind, convert_type(t.val) \o <<" ">> \o v.val \o <<" ", "=", " ">> \o e.val \o <<";">>),
                       ind, "SEMI"))
        ELSE Closing(toks, v.pos,
                     write(out, ind, convert_type(t.val) \o <<" ">> \o v.val \o <<";">>),
                     ind, "SEMI")))

transpile_property(toks, p, out, ind) == Declaration(toks, p, out, ind)

transpile_var_declaration(toks, p, out, ind) == Declaration(toks, p, out, ind)

\* the parameter loop of transpile_method, followed by expect('RPAREN');
\* val is the list of parameter texts
RECURSIVE ParamLoop(_, _, _)
ParamLoop(toks, p, params) ==
    IF HasCur(toks, p) /\ TypeAt(toks, p) # "RPAREN"
    THEN Bind(expect(toks, p, "KEYWORD", <<>>), LAMBDA t :
           Bind(expect(toks, t.pos, "IDENTIFIER", <<>>), LAMBDA n :
             ParamLoop(toks, SkipComma(toks, n.pos),
                       Append(params, convert_type(t.val) \o <<" ">> \o n.val))))
    ELSE Bind(expect(toks, p, "RPAREN", <<>>), LAMBDA r : Ok(r.pos, params))

\* the line transpile_method writes
MethodLine(is_constructor, class_name, return_type, method_name, params) ==
    IF is_constructor
    THEN class_name \o <<"(">> \o JoinComma(params) \o <<")", " ", "{">>
    ELSE return_type \o <<" ">> \o method_name \o <<"(">> \o JoinComma(params) \o <<")", " ", "{">>

\* transpile_method from the write of its line up to the call of transpile_block
MethodOpen(toks, p, out, ind, line_text) ==
    Try(expect(toks, p, "LBRACE", <<>>), write(out, ind, line_text), ind, LAMBDA b :
      Step(b.pos, write(out, ind, line_text), ind + 1))

\* transpile_method up to the call of transpile_block
MethodHeader(toks, p, out, ind, class_name) ==
    Try(expect(toks, p, "KEYWORD", <<"f", "u", "n", "c">>), out, ind, LAMBDA f :
      Try(expect(toks, f.pos, "IDENTIFIER", <<>>), out, ind, LAMBDA m :
        Try(expect(toks, m.pos, "LPAREN", <<>>), out, ind, LAMBDA l :
          Try(ParamLoop(toks, l.pos, <<>>), out, ind, LAMBDA ps :
            IF ~(m.val = class_name) /\ TypeAt(toks, ps.pos) = "COLON"
            THEN Try(expect(toks, ps.pos + 1, "KEYWORD", <<>>), out, ind, LAMBDA rt :
                   MethodOpen(toks, rt.pos, out, ind,
                              MethodLine(FALSE, class_name, convert_type(rt.val), m.val, ps.val)))
            ELSE MethodOpen(toks, ps.pos, out, ind,
                            MethodLine(m.val = class_name, class_name, <<"v", "o", "i", "d">>, m.val, ps.val))))))

\* the end of transpile_method, transpile_while, transpile_for and of both
\* blocks of transpile_if: indent -= 1, write('}'), expect('RBRACE')
BlockTail(toks, p, out, ind) ==
    Closing(toks, p, write(out, ind - 1, <<"}">>), ind - 1, "RBRACE")

\* whether, the first block of an if being closed at p, an else branch follows
ElseFollows(toks, p) == TypeAt(toks, p) = "RBRACE" /\ IsKeyword(toks, p + 1, <<"e", "l", "s", "e">>)

\* transpile_if from the end of its first block up to its second block
ElseHeader(toks, p, out, ind) ==
    Try(expect(toks, p + 1, "LBRACE", <<>>), out, ind, LAMBDA b :
      Step(b.pos, write(out, ind, <<"e", "l", "s", "e", " ", "{">>), ind + 1))

\* transpile_if after its first block
IfTail(toks, p, out, ind) ==
    IF ElseFollows(toks, p)
    THEN ElseHeader(toks, p + 1, write(out, ind - 1, <<"}">>), ind - 1)
    ELSE BlockTail(toks, p, out, ind)

\* the return branch of transpile_statement
ReturnStatement(toks, p, out, ind) ==
    IF HasCur(toks, p + 1) /\ TypeAt(toks, p + 1) # "SEMI"
    THEN Try(transpile_expression(toks, p + 1), out, ind, LAMBDA e :
           Closing(toks, e.pos, write(out, ind, <<"r", "e", "t", "u", "r", "n", " ">> \o e.val \o <<";">>), ind, "SEMI"))
    ELSE Closing(toks, p + 1, write(out, ind, <<"r", "e", "t", "u", "r", "n", ";">>), ind, "SEMI")

\* the last branch of transpile_statement: an expression statement
ExpressionStatement(toks, p, out, ind) ==
    Try(transpile_expression(toks, p), out, ind, LAMBDA e :
      Closing(toks, e.pos, write(out, ind, e.val \o <<";">>), ind, "SEMI"))

\* ' << arg' for each arg
RECURSIVE PrintChain(_)
PrintChain(args) ==
    IF args = <<>> THEN <<>> ELSE <<" ", "<", "<", " ">> \o Head(args) \o PrintChain(Tail(args))

transpile_print(toks, p, out, ind) ==
    Try(expect(toks, p, "KEYWORD", <<"p", "r", "i", "n", "t">>), out, ind, LAMBDA k :
      Try(expect(toks, k.pos, "LPAREN", <<>>), out, ind, LAMBDA l :
        Try(ArgLoop(toks, l.pos, <<>>), out, ind, LAMBDA a :
          Try(expect(toks, a.pos, "SEMI", <<>>), out, ind, LAMBDA s :
            Step(s.pos, write(out, ind, <<"c", "o", "u", "t">> \o PrintChain(a.val) \o <<" ", "<", "<", " ", "e", "n", "d", "l", ";">>), ind)))))

\* transpile_if and transpile_while up to their block: word is 'if' or 'while'
ConditionHeader(toks, p, out, ind, word) ==
    Try(expect(toks, p, "KEYWORD", word), out, ind, LAMBDA k :
      Try(expect(toks, k.pos, "LPAREN", <<>>), out, ind, LAMBDA l :
        Try(transpile_expression(toks, l.pos), out, ind, LAMBDA c :
          Try(expect(toks, c.pos, "RPAREN", <<>>), out, ind, LAMBDA r :
            Try(expect(toks, r.pos, "LBRACE", <<>>), out, ind, LAMBDA b :
              Step(b.pos, write(out, ind, word \o <<" ", "(">> \o c.val \o <<")", " ", "{">>), ind + 1))))))

IfHeader(toks, p, out, ind) == ConditionHeader(toks, p, out, ind, <<"i", "f">>)

WhileHeader(toks, p, out, ind) == ConditionHeader(toks, p, out, ind, <<"w", "h", "i", "l", "e">>)

\* transpile_for from its third expression up to its block
ForOpen(toks, p, out, ind, init, condition) ==
    Try(transpile_expression(toks, p), out, ind, LAMBDA u :
      Try(expect(toks, u.pos, "RPAREN", <<>>), out, ind, LAMBDA r :
        Try(expect(toks, r.pos, "LBRACE", <<>>), out, ind, LAMBDA b :
          Step(b.pos,
               write(out, ind, <<"f", "o", "r", " ", "(">> \o init \o <<";", " ">> \o condition \o <<";", " ">> \o u.val \o <<")", " ", "{">>),
               ind + 1))))

\* transpile_for up to its block
ForHeader(toks, p, out, ind) ==
    Try(expect(toks, p, "KEYWORD", <<"f", "o", "r">>), out, ind, LAMBDA k :
      Try(expect(toks, k.pos, "LPAREN", <<>>), out, ind, LAMBDA l :
        Try(transpile_expression(toks, l.pos), out, ind, LAMBDA i :
          Try(expect(toks, i.pos, "SEMI", <<>>), out, ind, LAMBDA s1 :
            Try(transpile_expression(toks, s1.pos), out, ind, LAMBDA c :
              Try(expect(toks, c.pos, "SEMI", <<>>), out, ind, LAMBDA s2 :
                ForOpen(toks, s2.pos, out, ind, i.val, c.val)))))))

\* the keywords transpile_statement has a branch for
DeclarationWords == {<<"i", "n", "t">>, <<"f", "l", "o", "a", "t">>, <<"s", "t", "r", "i", "n", "g">>, <<"b", "o", "o", "l">>}
StatementWords == {<<"r", "e", "t", "u", "r", "n">>, <<"i", "f">>, <<"w", "h", "i", "l", "e">>, <<"f", "o", "r">>, <<"p", "r", "i", "n", "t">>} \cup DeclarationWords

\* ErrorResult as it would be if the buffer built so far were returned with the error
ErrorResultWithBuffer(out, message) == Join(out) \o <<"\n", "E", "R", "R", "O", "R", ":", " ">> \o message

\* ErrorResult as it would be if the message were returned without the prefix
ErrorResultBare(out, message) == message

\* compile_lakbay's two returns: the target text, or the message behind 'ERROR: '
ErrorResult(out, message) == <<"E", "R", "R", "O", "R", ":", " ">> \o message

\* ------------------------------------------------------------------- state
\* queue    the source texts still to be handed to compile_lakbay
\* calls    the finished calls: source text, tokens, token places, result
\* phase    "idle", "lex" (in Lexer.tokenize), "parse" (in Transpiler.transpile), "done"
\* code, cpos, line, tokens     the Lexer's fields (cpos is Lexer.pos)
\* spans    for each token, where it began and ended in code (kept for the checks)
\* pos, output, indent          the Transpiler's fields
\* stack    the block constructs being translated, innermost last: the Python
\*          call stack below transpile()
\* exc      the message of the exception raised (empty: none)
\* result   what compile_lakbay returned
\* spins    iterations of transpile_block that changed nothing
VARIABLES queue, calls, phase, code, cpos, line, tokens, spans, pos, output, indent, stack, exc, result, spins

vars == <<queue, calls, phase, code, cpos, line, tokens, spans, pos, output, indent, stack, exc, result, spins>>

lexerVars == <<code, cpos, line, tokens, spans>>
parserVars == <<pos, output, indent, stack, exc, result, spins>>

\* ------------------------------------------------------------------ inputs
SeqsUpTo(S, n) == UNION {[1..k -> S] : k \in 0..n}

\* each item on a line of its own
RECURSIVE Lines(_)
Lines(items) ==
    IF items = <<>> THEN <<>> ELSE Head(items) \o <<"\n">> \o Lines(Tail(items))

Statements ==
    { <<"x", "=", "1", ";">>, <<"r", "e", "t", "u", "r", "n", ";">>, <<"r", "e", "t", "u", "r", "n", " ", "x", "+", "1", ";">>, <<"i", "n", "t", " ", "y", "=", "2", ";">>, <<"b", "o", "o", "l", " ", "b", ";">>,
      <<"p", "r", "i", "n", "t", "(", "x", ",", "1", ")", ";">>, <<"p", "r", "i", "n", "t", "(", "x", " ", "1", ")", ";">>,
      <<"i", "f", "(", "x", ")", "{", "\n", "y", ";", "\n", "}">>, <<"i", "f", "(", "x", ")", "{", "\n", "y", ";", "\n", "}", "e", "l", "s", "e", "{", "\n", "z", ";", "\n", "}">>, <<"w", "h", "i", "l", "e", "(", "x", "<", "1", ")", "{", "\n", "y", ";", "\n", "}">>,
      <<"f", "o", "r", "(", "i", "=", "0", ";", "i", "<", "2", ";", "i", "=", "i", "+", "1", ")", "{", "\n", "y", ";", "\n", "}">>, <<"i", "f", "(", "x", ")", "{", "\n", "t", "h", "i", "s", ".", "y", "=", "1", ";", "\n", "}">>,
      <<"t", "h", "i", "s", ".", "x", "=", "1", ";">>, <<"n", "e", "w", " ", "B", "(", ")", ";">>, <<"t", "r", "u", "e", ";">>, <<"f", "a", "l", "s", "e", ";">>, <<"v", "o", "i", "d", ";">>, <<"a", "r", "r", "a", "y", ";">>,
      <<"c", "l", "a", "s", "s", ";">>, <<"e", "l", "s", "e", ";">>,
      <<"x", "=", "1">>, <<"s", "=", "\"", "a", "\\", "n", "b", "\"", ";">>, <<"s", "=", "\"", "\\", "t", "\\", "\\", "\\", "\"", "\"", ";">>, <<"s", "=", "\"", "a", "\n", "b", "\"", " ", "x", ";">>,
      <<"x", "=", "1", "+", "2", "*", "3", ";">>, <<"a", "-", "b", "-", "c", ";">>, <<"f", "(", "1", ",", "2", ")", ".", "g", "[", "3", "]", ";">>, <<"x", "=", "-", "(", "a", ")", "|", "|", "!", "b", "&", "&", "c", "=", "=", "d", ";">>,
      <<"x", "=", "6", "/", "\n", "2", ";">>, <<"x", "=", "n", "e", "w", " ", "B", "(", "1", ")", ";">>, <<"x", "=", "1", ";", "/", "/", "c">>, <<"x", "=", "@", "1", ";">> }

Members ==
    { <<"i", "n", "t", " ", "x", ";">>, <<"i", "n", "t", " ", "x", "=", "1", ";">>, <<"B", " ", "y", ";">>, <<"p", "u", "b", "l", "i", "c", ":">>, <<"p", "r", "i", "v", "a", "t", "e", ":">>, <<"p", "u", "b", "l", "i", "c">>, <<"x">>,
      <<"f", "u", "n", "c", " ", "f", "(", ")", "{", "\n", "}">>, <<"f", "u", "n", "c", " ", "A", "(", ")", "{", "\n", "}">>, <<"f", "u", "n", "c", " ", "A", "(", ")", ":", "i", "n", "t", "{", "\n", "}">>, <<"f", "u", "n", "c", " ", "A", "(", "i", "n", "t", " ", "a", ")", "{", "\n", "t", "h", "i", "s", ".", "a", "=", "a", ";", "\n", "}">>,
      <<"f", "u", "n", "c", " ", "f", "(", "i", "n", "t", " ", "a", ",", "B", " ", "b", ")", "{", "\n", "}">>, <<"f", "u", "n", "c", " ", "f", "(", ")", ":", "B", "{", "\n", "}">>, <<"f", "u", "n", "c", " ", "f", "(", "i", "n", "t", " ", "a", ",", "i", "n", "t", " ", "b", ")", ":", "i", "n", "t", "{", "\n", "r", "e", "t", "u", "r", "n", " ", "a", ";", "\n", "}">>,
      <<"f", "u", "n", "c", " ", "f", "(", "i", "n", "t", " ", "a", " ", "i", "n", "t", " ", "b", ")", "{", "\n", "}">>, <<"s", "t", "r", "i", "n", "g", " ", "s", "=", "\"", "a", "\n", "b", "\"", " ", "i", "n", "t", " ", "y", ";">>, <<"i", "n", "t", " ", "x", "=">>, <<"f", "u", "n", "c", " ", "f", "(", ")">> }

TopItems ==
    { <<"c", "l", "a", "s", "s", " ", "A", "{", "\n", "}">>, <<"c", "l", "a", "s", "s", " ", "B", " ", "e", "x", "t", "e", "n", "d", "s", " ", "A", "{", "\n", "}">>, <<"x">>, <<"c", "l", "a", "s", "s", " ", "A", ";">>, <<"c", "l", "a", "s", "s", " ", "1">> }

MethodPrograms ==
    { <<"c", "l", "a", "s", "s", " ", "A", "{", "\n", "f", "u", "n", "c", " ", "f", "(", ")", "{", "\n">> \o Lines(b) \o <<"}", "\n", "}">> : b \in SeqsUpTo(Statements, MaxStmts) }

ClassPrograms ==
    { <<"c", "l", "a", "s", "s", " ", "A", "{", "\n">> \o Lines(m) \o <<"}">> : m \in SeqsUpTo(Members, MaxMembers) }

TopPrograms ==
    { Lines(t) : t \in SeqsUpTo(TopItems, MaxTop) }

Programs == MethodPrograms \cup ClassPrograms \cup TopPrograms

\* a program with up to MaxCut characters missing at its end
Sources ==
    { SubSeq(s, 1, Len(s) - k) : s \in Programs, k \in 0..MaxCut } 

\* s with text t put in after its first p characters
InsertAt(s, p, t) == SubSeq(s, 1, p) \o t \o SubSeq(s, p + 1, Len(s))

\* the places where a line ends: a comment put there runs to the end of its
\* line and takes no character of the text with it
LineEnds(s) == {p \in 0..Len(s) : p = Len(s) \/ s[p + 1] = "\n"}

CommentChars == {";", "/"}

Comments == { <<"/", "/">> \o w : w \in SeqsUpTo(CommentChars, MaxCommentLen) }

\* the programs of one statement, of one member, of one top-level item
ShortPrograms ==
    { <<"c", "l", "a", "s", "s", " ", "A", "{", "\n", "f", "u", "n", "c", " ", "f", "(", ")", "{", "\n">> \o Lines(b) \o <<"}", "\n", "}">> : b \in SeqsUpTo(Statements, 1) }
      \cup { <<"c", "l", "a", "s", "s", " ", "A", "{", "\n">> \o Lines(m) \o <<"}">> : m \in SeqsUpTo(Members, 1) }
      \cup { Lines(t) : t \in SeqsUpTo(TopItems, 1) }

\* a program, and the same program with one comment put in at the end of a line
CommentPairs ==
    UNION { { <<s, InsertAt(s, p, c)>> : p \in LineEnds(s), c \in Comments } : s \in ShortPrograms }

\* a character no lexical rule matches
Unmatched == <<"@">>

\* a program and the same program with an unmatched character put in at any
\* place; and the program with a space at that place, then with the character
SkipPairs ==
    UNION { { <<s, InsertAt(s, p, Unmatched)>> : p \in 0..Len(s) }
              \cup { <<InsertAt(s, p, <<" ">>), InsertAt(s, p, Unmatched)>> : p \in 0..Len(s) }
            : s \in ShortPrograms }

\* the binary operators, as the source writes them
BinaryTexts ==
    { <<"|", "|">>, <<"&", "&">>, <<"=", "=">>, <<"!", "=">>, <<"<">>, <<">">>, <<"<", "=">>, <<">", "=">>, <<"+">>, <<"-">>, <<"*">>, <<"/">> }

\* the i-th operand of an expression: identifiers and numbers in turn
OperandText(i) == << <<"a">>, <<"2">>, <<"c">>, <<"4">>, <<"e">>, <<"6">> >>[((i - 1) % 6) + 1]

\* ' op operand' for each operator of ops, the operand before them being the i-th
RECURSIVE OperatorsAndOperands(_, _)
OperatorsAndOperands(ops, i) ==
    IF ops = <<>> THEN <<>>
    ELSE <<" ">> \o Head(ops) \o <<" ">> \o OperandText(i + 1) \o OperatorsAndOperands(Tail(ops), i + 1)

\* a method whose one statement is an expression of up to MaxOps operators
ExprPrograms ==
    { <<"c", "l", "a", "s", "s", " ", "A", "{", "\n", "f", "u", "n", "c", " ", "f", "(", ")", "{", "\n">> \o OperandText(1) \o OperatorsAndOperands(ops, 1) \o <<";", "\n", "}", "\n", "}">> :
        ops \in SeqsUpTo(BinaryTexts, MaxOps) }

\* members of three kinds, and the lines each is to give
ShapeMembers == { <<"i", "n", "t", " ", "x", ";">>, <<"f", "u", "n", "c", " ", "f", "(", ")", "{", "\n", "}">>, <<"p", "r", "i", "v", "a", "t", "e", ":">> }

MemberLines(m) ==
    CASE m = <<"i", "n", "t", " ", "x", ";">> -> << <<" ", " ", " ", " ", "i", "n", "t", " ", "x", ";">> >>
      [] m = <<"f", "u", "n", "c", " ", "f", "(", ")", "{", "\n", "}">> -> << <<" ", " ", " ", " ", "v", "o", "i", "d", " ", "f", "(", ")", " ", "{">>, <<" ", " ", " ", " ", "}">> >>
      [] m = <<"p", "r", "i", "v", "a", "t", "e", ":">> -> << <<"p", "r", "i", "v", "a", "t", "e", ":">> >>

RECURSIVE MembersLines(_)
MembersLines(ms) ==
    IF ms = <<>> THEN <<>> ELSE MemberLines(Head(ms)) \o MembersLines(Tail(ms))

\* a class of up to MaxShape members, alone or followed by a second class:
\* its source text and the lines the claim gives it
ShapeBodies == SeqsUpTo(ShapeMembers, MaxShape)
ShapeCases ==
    { << <<"c", "l", "a", "s", "s", " ", "A", "{", "\n">> \o Lines(a) \o <<"}", "\n">>,
         << <<"\n", "c", "l", "a", "s", "s", " ", "A", " ", "{">>, <<"p", "u", "b", "l", "i", "c", ":">> >> \o MembersLines(a) \o << <<"}", ";">> >> >> : a \in ShapeBodies }
    \cup
    { << <<"c", "l", "a", "s", "s", " ", "A", "{", "\n">> \o Lines(a) \o <<"}", "\n", "c", "l", "a", "s", "s", " ", "B", " ", "e", "x", "t", "e", "n", "d", "s", " ", "A", "{", "\n">> \o Lines(b) \o <<"}", "\n">>,
         << <<"\n", "c", "l", "a", "s", "s", " ", "A", " ", "{">>, <<"p", "u", "b", "l", "i", "c", ":">> >> \o MembersLines(a) \o << <<"}", ";">> >>
           \o << <<"\n", "c", "l", "a", "s", "s", " ", "B", " ", ":", " ", "p", "u", "b", "l", "i", "c", " ", "A", " ", "{">>, <<"p", "u", "b", "l", "i", "c", ":">> >> \o MembersLines(b) \o << <<"}", ";">> >> >> :
         a \in ShapeBodies, b \in ShapeBodies }

ShapePrograms == { c[1] : c \in ShapeCases }

\* --------------------------------------------------------- compile_lakbay
InitWith(inputs) ==
    /\ queue \in inputs
    /\ calls = <<>>
    /\ phase = "idle"
    /\ code = <<>> /\ cpos = 0 /\ line = 1 /\ tokens = <<>> /\ spans = <<>>
    /\ pos = 0 /\ output = <<>> /\ indent = 0 /\ stack = <<>>
    /\ exc = <<>> /\ result = <<>> /\ spins = 0

Init == InitWith({ <<s>> : s \in Sources })

InitComments == InitWith(CommentPairs)

InitSkip == InitWith(SkipPairs)

InitShape == InitWith({ <<s>> : s \in ShapePrograms \cup Programs })

InitExpr == InitWith({ <<s>> : s \in ExprPrograms \cup ShortPrograms })

\* compile_lakbay(source_code) is entered: Lexer(source_code)
Call ==
    /\ phase = "idle" /\ queue # <<>>
    /\ code' = Head(queue) /\ queue' = Tail(queue)
    /\ cpos' = 0 /\ line' = 1 /\ tokens' = <<>> /\ spans' = <<>>
    /\ phase' = "lex"
    /\ UNCHANGED <<calls, parserVars>>

InLexer == phase = "lex" /\ cpos < Len(code)

Lexing(rule) == InLexer /\ LexRule(code, cpos) = rule

Emit(type, value, to) ==
    /\ tokens' = Append(tokens, Token(type, value, line))
    /\ spans' = Append(spans, [from |-> cpos, to |-> to])
    /\ cpos' = to

LexSpace ==
    /\ Lexing("space")
    /\ line' = IF At(code, cpos) = "\n" THEN line + 1 ELSE line
    /\ cpos' = cpos + 1
    /\ UNCHANGED <<queue, calls, phase, code, tokens, spans, parserVars>>

LexComment ==
    /\ Lexing("comment")
    /\ cpos' = ScanComment(code, cpos)
    /\ UNCHANGED <<queue, calls, phase, code, line, tokens, spans, parserVars>>

LexNumber ==
    /\ Lexing("number")
    /\ LET to == ScanWhile(code, cpos, NumberPart)
       IN Emit("NUMBER", SubSeq(code, cpos + 1, to), to)
    /\ UNCHANGED <<queue, calls, phase, code, line, parserVars>>

LexIdentifier ==
    /\ Lexing("ident")
    /\ LET to == ScanWhile(code, cpos, IdentPart)
           ident == SubSeq(code, cpos + 1, to)
       IN Emit(IF ident \in keywords THEN "KEYWORD" ELSE "IDENTIFIER", ident, to)
    /\ UNCHANGED <<queue, calls, phase, code, line, parserVars>>

LexString ==
    /\ Lexing("string")
    /\ LET s == ScanString(code, cpos + 1, <<>>)
       IN Emit("STRING", s.string, s.pos + 1)
    /\ UNCHANGED <<queue, calls, phase, code, line, parserVars>>

LexTwoChar ==
    /\ Lexing("two_char")
    /\ Emit(operators[TwoAt(code, cpos)], TwoAt(code, cpos), cpos + 2)
    /\ UNCHANGED <<queue, calls, phase, code, line, parserVars>>

LexSingleChar ==
    /\ Lexing("single")
    /\ Emit(single_chars[At(code, cpos)], <<At(code, cpos)>>, cpos + 1)
    /\ UNCHANGED <<queue, calls, phase, code, line, parserVars>>

\* SkipTo as it would be if the unmatched character took the next one with it
SkipTwo(p) == p + 2

\* self.pos += 1 on a character no rule matches
SkipTo(p) == p + 1

LexSkip ==
    /\ Lexing("skip")
    /\ cpos' = SkipTo(cpos)
    /\ UNCHANGED <<queue, calls, phase, code, line, tokens, spans, parserVars>>

\* tokenize() returns; Transpiler(tokens); transpile() lays down the preamble
TranspileBegin ==
    /\ phase = "lex" /\ cpos >= Len(code)
    /\ phase' = "parse"
    /\ pos' = 0 /\ indent' = 0 /\ output' = Preamble
    /\ UNCHANGED <<queue, calls, lexerVars, stack, exc, result, spins>>

\* ------------------------------------------------------- the parser's steps
Frame(kind, name, base) == [kind |-> kind, name |-> name, base |-> base]
Top == stack[Len(stack)]
Pop == SubSeq(stack, 1, Len(stack) - 1)
Push(kind, name) == Append(stack, Frame(kind, name, indent))

\* A step of the parser ends in r: the exception, if one was raised, goes up
\* to compile_lakbay, which returns the error text; otherwise the parser goes
\* on with the call stack stk.
Continue(r, stk) ==
    /\ pos' = r.pos /\ output' = r.output /\ indent' = r.indent
    /\ IF r.err # <<>>
       THEN /\ exc' = r.err
            /\ result' = ErrorResult(r.output, r.err)
            /\ phase' = "done"
            /\ stack' = stack
       ELSE /\ stack' = stk
            /\ UNCHANGED <<exc, result, phase>>
    /\ UNCHANGED <<queue, calls, lexerVars, spins>>

AtTopLevel == phase = "parse" /\ stack = <<>>

\* transpile(): a class declaration starts
TopClass ==
    /\ AtTopLevel /\ IsKeyword(tokens, pos, <<"c", "l", "a", "s", "s">>)
    /\ Continue(ClassHeader(tokens, pos, output, indent),
                Push("class", ClassNameAt(tokens, pos)))

\* transpile(): any other token is stepped over
TopAdvance ==
    /\ AtTopLevel /\ HasCur(tokens, pos) /\ ~IsKeyword(tokens, pos, <<"c", "l", "a", "s", "s">>)
    /\ Continue(Step(pos + 1, output, indent), stack)

\* transpile(): the tokens are used up; main() is added and the text returned
TopReturn ==
    /\ AtTopLevel /\ ~HasCur(tokens, pos)
    /\ output' = output \o MainFunction
    /\ result' = Join(output')
    /\ phase' = "done"
    /\ UNCHANGED <<queue, calls, lexerVars, pos, indent, stack, exc, spins>>

InClassBody == phase = "parse" /\ stack # <<>> /\ Top.kind = "class"

ClassMember == InClassBody /\ HasCur(tokens, pos) /\ TypeAt(tokens, pos) # "RBRACE"

ClassLabel ==
    /\ ClassMember /\ TypeAt(tokens, pos) = "KEYWORD"
    /\ ValueAt(tokens, pos) \in {<<"p", "u", "b", "l", "i", "c">>, <<"p", "r", "i", "v", "a", "t", "e">>}
    /\ Continue(ClassVisibility(tokens, pos, output, indent), stack)

ClassMethod ==
    /\ ClassMember /\ IsKeyword(tokens, pos, <<"f", "u", "n", "c">>)
    /\ Continue(MethodHeader(tokens, pos, output, indent, Top.name), Push("method", Top.name))

ClassProperty ==
    /\ ClassMember /\ TypeAt(tokens, pos) = "KEYWORD"
    /\ ValueAt(tokens, pos) \notin {<<"p", "u", "b", "l", "i", "c">>, <<"p", "r", "i", "v", "a", "t", "e">>, <<"f", "u", "n", "c">>}
    /\ Continue(transpile_property(tokens, pos, output, indent), stack)

ClassAdvance ==
    /\ ClassMember /\ TypeAt(tokens, pos) # "KEYWORD"
    /\ Continue(Step(pos + 1, output, indent), stack)

ClassEnd ==
    /\ InClassBody /\ ~(HasCur(tokens, pos) /\ TypeAt(tokens, pos) # "RBRACE")
    /\ Continue(ClassTail(tokens, pos, output, indent), Pop)

InBlock == phase = "parse" /\ stack # <<>> /\ Top.kind # "class"

\* transpile_block's loop goes round once more: transpile_statement is called
Statement == InBlock /\ HasCur(tokens, pos) /\ TypeAt(tokens, pos) # "RBRACE"

StmtReturn ==
    /\ Statement /\ IsKeyword(tokens, pos, <<"r", "e", "t", "u", "r", "n">>)
    /\ Continue(ReturnStatement(tokens, pos, output, indent), stack)

StmtIf ==
    /\ Statement /\ IsKeyword(tokens, pos, <<"i", "f">>)
    /\ Continue(IfHeader(tokens, pos, output, indent), Push("if", <<>>))

StmtWhile ==
    /\ Statement /\ IsKeyword(tokens, pos, <<"w", "h", "i", "l", "e">>)
    /\ Continue(WhileHeader(tokens, pos, output, indent), Push("while", <<>>))

StmtFor ==
    /\ Statement /\ IsKeyword(tokens, pos, <<"f", "o", "r">>)
    /\ Continue(ForHeader(tokens, pos, output, indent), Push("for", <<>>))

StmtPrint ==
    /\ Statement /\ IsKeyword(tokens, pos, <<"p", "r", "i", "n", "t">>)
    /\ Continue(transpile_print(tokens, pos, output, indent), stack)

StmtVarDeclaration ==
    /\ Statement /\ TypeAt(tokens, pos) = "KEYWORD" /\ ValueAt(tokens, pos) \in DeclarationWords
    /\ Continue(transpile_var_declaration(tokens, pos, output, indent), stack)

\* a keyword with no branch in transpile_statement: it returns having done
\* nothing, and transpile_block's loop comes round to the same token
StmtOtherKeyword ==
    /\ Statement /\ TypeAt(tokens, pos) = "KEYWORD" /\ ValueAt(tokens, pos) \notin StatementWords
    /\ spins < MaxSpin
    /\ spins' = spins + 1
    /\ UNCHANGED <<queue, calls, phase, lexerVars, pos, output, indent, stack, exc, result>>

StmtExpression ==
    /\ Statement /\ TypeAt(tokens, pos) # "KEYWORD"
    /\ Continue(ExpressionStatement(tokens, pos, output, indent), stack)

BlockDone == InBlock /\ ~(HasCur(tokens, pos) /\ TypeAt(tokens, pos) # "RBRACE")

MethodEnd ==
    /\ BlockDone /\ Top.kind = "method"
    /\ Continue(BlockTail(tokens, pos, output, indent), Pop)

\* the first block of an if ends; an else branch opens a second block
IfEnd ==
    /\ BlockDone /\ Top.kind = "if"
    /\ Continue(IfTail(tokens, pos, output, indent),
                IF ElseFollows(tokens, pos)
                THEN Append(Pop, Frame("else", <<>>, Top.base)) ELSE Pop)

ElseEnd ==
    /\ BlockDone /\ Top.kind = "else"
    /\ Continue(BlockTail(tokens, pos, output, indent), Pop)

WhileEnd ==
    /\ BlockDone /\ Top.kind = "while"
    /\ Continue(BlockTail(tokens, pos, output, indent), Pop)

ForEnd ==
    /\ BlockDone /\ Top.kind = "for"
    /\ Continue(BlockTail(tokens, pos, output, indent), Pop)

Lex ==
    \/ LexSpace \/ LexComment \/ LexNumber \/ LexIdentifier
    \/ LexString \/ LexTwoChar \/ LexSingleChar \/ LexSkip

Parse ==
    \/ TopClass \/ TopAdvance \/ TopReturn
    \/ ClassLabel \/ ClassMethod \/ ClassProperty \/ ClassAdvance \/ ClassEnd
    \/ StmtReturn \/ StmtIf \/ StmtWhile \/ StmtFor \/ StmtPrint
    \/ StmtVarDeclaration \/ StmtOtherKeyword \/ StmtExpression
    \/ MethodEnd \/ IfEnd \/ ElseEnd \/ WhileEnd \/ ForEnd

\* compile_lakbay has returned and is called again, with the next source text:
\* a new Lexer and a new Transpiler, nothing kept from the call before
NextCall ==
    /\ phase = "done" /\ queue # <<>>
    /\ calls' = Append(calls, [code |-> code, tokens |-> tokens, spans |-> spans,
                               exc |-> exc, result |-> result])
    /\ code' = Head(queue) /\ queue' = Tail(queue)
    /\ cpos' = 0 /\ line' = 1 /\ tokens' = <<>> /\ spans' = <<>>
    /\ pos' = 0 /\ output' = <<>> /\ indent' = 0 /\ stack' = <<>>
    /\ exc' = <<>> /\ result' = <<>> /\ spins' = 0
    /\ phase' = "lex"

Next == Call \/ Lex \/ TranspileBegin \/ Parse

Spec == Init /\ [][Next]_vars

\* two calls in a row: a program, then the program with a comment put in
NextAgain == Next \/ NextCall

SpecComments == InitComments /\ [][NextAgain]_vars

\* two calls, the second on the first's text with an unmatched character in it
SpecSkip == InitSkip /\ [][NextAgain]_vars

\* one call, on a method whose statement is an expression of binary operators
SpecExpr == InitExpr /\ [][Next]_vars

\* one call, on a text of one or two classes with members, or on any program
SpecShape == InitShape /\ [][Next]_vars

\* ------------------------------------------------------------- the checks
Done == phase = "done"
Failed == Done /\ exc # <<>>
Succeeded == Done /\ exc = <<>>

IsErrorText(t) == StartsWith(t, <<"E", "R", "R", "O", "R", ":">>)

\* the texts of the tokens, in order
Words(toks) == [i \in 1..Len(toks) |-> toks[i].value]
IsIdentifier(toks, i) == toks[i].type = "IDENTIFIER"

\* the 1-based line of the source text at offset off
SourceLine(c, off) == 1 + Cardinality({i \in 1..off : c[i] = "\n"})

\* C1: inside a method body every iteration of the statement loop
\* (transpile_block calling transpile_statement) advances the cursor or raises
\* an error, whatever token starts the statement.
C1_IterationAdvancesOrRaises ==
    [][Statement => (pos' > pos \/ exc' # <<>>)]_vars

\* C2: a token sequence that does not conform to program := { classDecl }
\* never produces a successful target text; here the mismatch is a first
\* token that is not 'class'.
C2_MismatchNeverSucceeds ==
    (Done /\ tokens # <<>> /\ ~IsKeyword(tokens, 0, <<"c", "l", "a", "s", "s">>)) => Failed

\* the three places of a type: 'class C { T n ; }', 'class C { func f ( T n )
\* { } }' and 'class C { func f ( ) : T { } }', T being an identifier
PropertyOfClassType ==
    /\ Len(tokens) = 7
    /\ Words(tokens) = <<<<"c", "l", "a", "s", "s">>, tokens[2].value, <<"{">>, tokens[4].value, tokens[5].value, <<";">>, <<"}">>>>
    /\ IsIdentifier(tokens, 2) /\ IsIdentifier(tokens, 4) /\ IsIdentifier(tokens, 5)

ParameterOfClassType ==
    /\ Len(tokens) = 12
    /\ Words(tokens) = <<<<"c", "l", "a", "s", "s">>, tokens[2].value, <<"{">>, <<"f", "u", "n", "c">>, tokens[5].value, <<"(">>,
                         tokens[7].value, tokens[8].value, <<")">>, <<"{">>, <<"}">>, <<"}">>>>
    /\ IsIdentifier(tokens, 2) /\ IsIdentifier(tokens, 5)
    /\ IsIdentifier(tokens, 7) /\ IsIdentifier(tokens, 8)
    /\ tokens[5].value # tokens[2].value

ReturnOfClassType ==
    /\ Len(tokens) = 12
    /\ Words(tokens) = <<<<"c", "l", "a", "s", "s">>, tokens[2].value, <<"{">>, <<"f", "u", "n", "c">>, tokens[5].value, <<"(">>, <<")">>,
                         <<":">>, tokens[9].value, <<"{">>, <<"}">>, <<"}">>>>
    /\ IsIdentifier(tokens, 2) /\ IsIdentifier(tokens, 5) /\ IsIdentifier(tokens, 9)
    /\ tokens[5].value # tokens[2].value

Emitted(text) == Succeeded /\ \E i \in 1..Len(output) : output[i] = text

\* C3: an identifier that is no primitive-type keyword is accepted as the type
\* of a property, of a parameter and of a return annotation, and is emitted
\* unchanged in the declaration.
C3_ClassNameAsType ==
    /\ (Done /\ PropertyOfClassType)
          => Emitted(<<" ", " ", " ", " ">> \o tokens[4].value \o <<" ">> \o tokens[5].value \o <<";">>)
    /\ (Done /\ ParameterOfClassType)
          => Emitted(<<" ", " ", " ", " ", "v", "o", "i", "d", " ">> \o tokens[5].value \o <<"(">> \o tokens[7].value \o <<" ">>
                       \o tokens[8].value \o <<")", " ", "{">>)
    /\ (Done /\ ReturnOfClassType)
          => Emitted(<<" ", " ", " ", " ">> \o tokens[9].value \o <<" ">> \o tokens[5].value \o <<"(", ")", " ", "{">>)

\* 'class C { func C ( ) : T { } }': a constructor with a return annotation
AnnotatedConstructor ==
    /\ Len(tokens) = 12
    /\ Words(tokens) = <<<<"c", "l", "a", "s", "s">>, tokens[2].value, <<"{">>, <<"f", "u", "n", "c">>, tokens[2].value, <<"(">>, <<")">>,
                         <<":">>, tokens[9].value, <<"{">>, <<"}">>, <<"}">>>>
    /\ IsIdentifier(tokens, 2) /\ IsIdentifier(tokens, 5) /\ tokens[9].type = "KEYWORD"

\* C4: a method named as its class is emitted as a constructor, the line
\* 'ClassName(params) {' with no return type, also when the source gives it a
\* ': TYPE' annotation; the annotation does not make the translation fail.
C4_AnnotatedConstructorEmitted ==
    (Done /\ AnnotatedConstructor) => Emitted(<<" ", " ", " ", " ">> \o tokens[2].value \o <<"(", ")", " ", "{">>)

\* whether the inside of a target string literal is made of plain characters
\* and escape pairs only: no raw line break, no quote or backslash on its own
RECURSIVE EscapedBody(_)
EscapedBody(s) ==
    IF s = <<>> THEN TRUE
    ELSE IF Head(s) = "\\" THEN Len(s) >= 2 /\ EscapedBody(Tail(Tail(s)))
    ELSE IF Head(s) \in {"\"", "\n"} THEN FALSE
    ELSE EscapedBody(Tail(s))

WellEscaped(lit) ==
    /\ Len(lit) >= 2 /\ lit[1] = "\"" /\ lit[Len(lit)] = "\""
    /\ EscapedBody(SubSeq(lit, 2, Len(lit) - 1))

\* the source text of token i
SourceOf(i) == SubSeq(code, spans[i].from + 1, spans[i].to)

\* C5: the target string literal emitted for a string token re-escapes the
\* characters the lexer decoded from a source literal written with escapes (no
\* raw line break in it): it never contains a raw newline, an unescaped double
\* quote or an unescaped backslash.
C5_EmittedLiteralEscaped ==
    \A i \in 1..Len(tokens) :
        (tokens[i].type = "STRING" /\ \A k \in 1..Len(SourceOf(i)) : SourceOf(i)[k] # "\n")
            => WellEscaped(transpile_primary(tokens, i - 1).val)

\* C6: every error result carries a line number (then what was expected and
\* what was found), also when the mismatch is the end of the input.
C6_ErrorCarriesLine ==
    Failed => \E n \in 1..(Len(code) + 1) : StartsWith(result, <<"E", "R", "R", "O", "R", ":", " ", "L", "i", "n", "e", " ">> \o ToStr(n) \o <<":", " ">>)

\* expect('SEMI') has failed on the token under the cursor
SemicolonMissing ==
    Failed /\ HasCur(tokens, pos) /\ exc = MismatchMessage(tokens, pos, "SEMI")

\* C7: when a required ';' is missing the result is an error whose line number
\* is the 1-based source line of the token found in its place, raw newlines in
\* string literals before it included.
C7_SemicolonErrorLine ==
    SemicolonMissing =>
        /\ result = <<"E", "R", "R", "O", "R", ":", " ">> \o exc
        /\ current(tokens, pos).line = SourceLine(code, spans[pos + 1].from)

\* C8: a translation that hits an error returns the error alone, with no line
\* of the emission buffer in it; one that succeeds returns the whole buffer,
\* the entry point last.
C8_ErrorOrCompleteText ==
    /\ Failed =>
         /\ result = <<"E", "R", "R", "O", "R", ":", " ">> \o exc
         /\ \A i \in 1..Len(output) : output[i] # <<>> => ~Occurs(output[i], result)
    /\ Succeeded =>
         /\ result = Join(output)
         /\ SubSeq(output, Len(output) - Len(MainFunction) + 1, Len(output)) = MainFunction

\* C8's case: the error came after a method's line was written
C8_Witness ==
    /\ Failed /\ exc = MismatchMessage(tokens, pos, "LBRACE")
    /\ Len(output) > Len(Preamble) + 2
    /\ result = <<"E", "R", "R", "O", "R", ":", " ">> \o exc

\* C9: compile_lakbay returns a text beginning with 'ERROR:' exactly when
\* tokenizing or translating raised an error.
C9_PrefixClassifies ==
    Done => (exc # <<>> <=> IsErrorText(result))

\* C9's case: a class was translated and the text returned
C9_Witness ==
    Succeeded /\ Len(output) > Len(Preamble) + Len(MainFunction) /\ ~IsErrorText(result)

\* The second of two calls is under way; the first was made on the same text
\* without the comment, which was put in after Place characters.
RECURSIVE CommonPrefix(_, _)
CommonPrefix(s, t) ==
    IF s # <<>> /\ t # <<>> /\ Head(s) = Head(t) THEN 1 + CommonPrefix(Tail(s), Tail(t)) ELSE 0

First == calls[1]
Place == CommonPrefix(First.code, code)
Compared == calls # <<>> /\ phase \in {"parse", "done"}

\* the comment stands between two tokens of the first text, none split by it
BetweenTokens ==
    \A i \in 1..Len(First.spans) : ~(First.spans[i].from < Place /\ Place < First.spans[i].to)

\* the comment follows a '/' token with nothing in between
AfterSlash ==
    \E i \in 1..Len(First.spans) : First.tokens[i].type = "DIV" /\ First.spans[i].to = Place

KindsAndTexts(toks) == [i \in 1..Len(toks) |-> <<toks[i].type, toks[i].value>>]

SameTokensAndResult ==
    /\ KindsAndTexts(tokens) = KindsAndTexts(First.tokens)
    /\ Done => result = First.result

\* C10, as stated: a text and the same text with '//' comments put in between
\* tokens give the same token kinds and texts and the same result.
C10_CommentsTransparent ==
    (Compared /\ BetweenTokens) => SameTokensAndResult

\* C10, amended: the same, for a comment that does not directly follow a '/'
\* token (that '/' and the comment's first '/' are read as the start of a
\* comment, and the '/' token is lost).
C10_CommentsTransparentUnlessAfterSlash ==
    (Compared /\ BetweenTokens /\ ~AfterSlash) => SameTokensAndResult

\* C10's case: the text with the comment has been translated, to the same result
C10_Witness ==
    /\ Compared /\ Done /\ BetweenTokens /\ ~AfterSlash
    /\ Len(tokens) > 3 /\ Place < Len(First.code)
    /\ result = First.result

\* The second text has an unmatched character after its first Place
\* characters; the first text is the second without it (Removed) or with a
\* space in its place (Replaced).
Removed == Compared /\ Len(code) = Len(First.code) + 1
Replaced == Compared /\ Len(code) = Len(First.code)

\* the character stands inside a token of the second text: a string literal
InsideLiteral == \E i \in 1..Len(spans) : spans[i].from <= Place /\ Place < spans[i].to

\* the character has a neighbour on each side and neither is white space
Touching ==
    /\ Place > 0 /\ Place + 1 < Len(code)
    /\ code[Place] \notin Space /\ code[Place + 2] \notin Space

\* C11, as stated: an unmatched character outside any string literal is
\* skipped without an error and without a token, and the tokens and the result
\* are those of the same text with the character removed.
C11_SkippedAsIfRemoved ==
    (Removed /\ ~InsideLiteral) => SameTokensAndResult

\* C11, amended: the tokens and the result are those of the same text with a
\* space in the character's place (the character ends the token before it, as
\* white space does, so 'a@b' reads as 'a b' and not as 'ab').
C11_SkippedAsIfSpace ==
    (Replaced /\ ~InsideLiteral) => SameTokensAndResult

\* C11's case: the character stands between two tokens that touch it, and the
\* text has been translated to the result of the text with a space there
C11_Witness ==
    /\ Replaced /\ Done /\ ~InsideLiteral /\ Touching
    /\ Len(tokens) > 3 /\ result = First.result

\* The precedence level of a binary operator, lowest first, as the claim
\* lists them.
PrecedenceOf(op) ==
    CASE op = <<"|", "|">> -> 1 [] op = <<"&", "&">> -> 2 [] op \in {<<"=", "=">>, <<"!", "=">>} -> 3
      [] op \in {<<"<">>, <<">">>, <<"<", "=">>, <<">", "=">>} -> 4 [] op \in {<<"+">>, <<"-">>} -> 5
      [] op \in {<<"*">>, <<"/">>} -> 6

\* e is operand, operator, operand, ...: the places of its operators, the
\* lowest level among them, and the last operator of that level, which is the
\* one applied last
OperatorPlaces(e) == {i \in 1..Len(e) : i % 2 = 0}
LowestLevel(e) ==
    CHOOSE l \in 1..6 :
        /\ \E i \in OperatorPlaces(e) : PrecedenceOf(e[i]) = l
        /\ \A i \in OperatorPlaces(e) : PrecedenceOf(e[i]) >= l
LastApplied(e) ==
    CHOOSE k \in OperatorPlaces(e) :
        /\ PrecedenceOf(e[k]) = LowestLevel(e)
        /\ \A i \in OperatorPlaces(e) : PrecedenceOf(e[i]) = LowestLevel(e) => i <= k

\* the fully parenthesized text of e: the operator applied last splits e in
\* two, and each side is grouped in the same way
RECURSIVE Grouped(_)
Grouped(e) ==
    IF Len(e) = 1 THEN e[1]
    ELSE <<"(">> \o Grouped(SubSeq(e, 1, LastApplied(e) - 1)) \o <<" ">> \o e[LastApplied(e)] \o <<" ">>
           \o Grouped(SubSeq(e, LastApplied(e) + 1, Len(e))) \o <<")">>

\* 'class A { func f ( ) { e ; } }', e being operands and binary operators in turn
ExprItems == SubSeq(Words(tokens), 9, Len(tokens) - 3)
IsExprProgram ==
    /\ Len(tokens) >= 12
    /\ SubSeq(Words(tokens), 1, 8) = <<<<"c", "l", "a", "s", "s">>, <<"A">>, <<"{">>, <<"f", "u", "n", "c">>, <<"f">>, <<"(">>, <<")">>, <<"{">>>>
    /\ SubSeq(Words(tokens), Len(tokens) - 2, Len(tokens)) = <<<<";">>, <<"}">>, <<"}">>>>
    /\ Len(ExprItems) % 2 = 1
    /\ \A i \in 1..Len(ExprItems) :
          IF i % 2 = 1 THEN tokens[8 + i].type \in {"IDENTIFIER", "NUMBER"}
          ELSE tokens[8 + i].type \notin {"IDENTIFIER", "NUMBER", "STRING"} /\ ExprItems[i] \in BinaryTexts

\* C12: an expression of number and identifier operands and binary operators
\* is emitted with each operation in its own parentheses, higher levels
\* grouped more tightly and equal levels from the left.
C12_FullyParenthesized ==
    (Done /\ IsExprProgram) => Emitted(<<" ", " ", " ", " ", " ", " ", " ", " ">> \o Grouped(ExprItems) \o <<";">>)

\* C12's case: 'a + 2 * c', a lower level before a higher one, has been emitted
C12_Witness ==
    /\ Done /\ IsExprProgram /\ Len(ExprItems) = 5
    /\ PrecedenceOf(ExprItems[2]) < PrecedenceOf(ExprItems[4])
    /\ Emitted(<<" ", " ", " ", " ", " ", " ", " ", " ", "(">> \o ExprItems[1] \o <<" ">> \o ExprItems[2] \o <<" ", "(">> \o ExprItems[3] \o <<" ">>
                 \o ExprItems[4] \o <<" ">> \o ExprItems[5] \o <<")", ")", ";">>)

\* The source classes: each 'class' keyword followed by a name and '{', or by
\* a name, 'extends', a name and '{'; and the declaration line of each.
ClassAt(toks, i) ==
    /\ toks[i].type = "KEYWORD" /\ toks[i].value = <<"c", "l", "a", "s", "s">>
    /\ i + 2 <= Len(toks) /\ toks[i + 1].type = "IDENTIFIER"
    /\ \/ toks[i + 2].type = "LBRACE"
       \/ /\ i + 4 <= Len(toks) /\ toks[i + 2].value = <<"e", "x", "t", "e", "n", "d", "s">> /\ toks[i + 2].type = "KEYWORD"
          /\ toks[i + 3].type = "IDENTIFIER" /\ toks[i + 4].type = "LBRACE"

DeclarationOf(toks, i) ==
    IF toks[i + 2].type = "LBRACE" THEN <<"\n", "c", "l", "a", "s", "s", " ">> \o toks[i + 1].value \o <<" ", "{">>
    ELSE <<"\n", "c", "l", "a", "s", "s", " ">> \o toks[i + 1].value \o <<" ", ":", " ", "p", "u", "b", "l", "i", "c", " ">> \o toks[i + 3].value \o <<" ", "{">>

RECURSIVE SourceDeclarations(_, _)
SourceDeclarations(toks, i) ==
    IF i > Len(toks) THEN <<>>
    ELSE IF ClassAt(toks, i) THEN <<DeclarationOf(toks, i)>> \o SourceDeclarations(toks, i + 1)
    ELSE SourceDeclarations(toks, i + 1)

IsDeclaration(ln) == StartsWith(ln, <<"\n", "c", "l", "a", "s", "s", " ">>)
IsClosing(ln) == ln = <<"}", ";">>

\* the buffer between the preamble and the entry point
Between == SubSeq(output, Len(Preamble) + 1, Len(output) - Len(MainFunction))

\* C13: a successful text is the preamble, one declaration per source class in
\* source order (its line, 'public:', its members in source order, '};') and
\* the entry point as the last lines; an empty class has no member lines.
C13_FixedShape ==
    Done =>
      /\ Succeeded =>
           /\ Len(output) >= Len(Preamble) + Len(MainFunction)
           /\ SubSeq(output, 1, Len(Preamble)) = Preamble
           /\ SubSeq(output, Len(output) - Len(MainFunction) + 1, Len(output)) = MainFunction
           /\ SelectSeq(Between, IsDeclaration) = SourceDeclarations(tokens, 1)
           /\ Len(SelectSeq(Between, IsClosing)) = Len(SourceDeclarations(tokens, 1))
           /\ \A i \in 1..Len(Between) :
                 IsDeclaration(Between[i]) => i < Len(Between) /\ Between[i + 1] = <<"p", "u", "b", "l", "i", "c", ":">>
           /\ Between # <<>> => IsDeclaration(Between[1]) /\ IsClosing(Between[Len(Between)])
      /\ \A c \in ShapeCases :
           code = c[1] => Succeeded /\ output = Preamble \o c[2] \o MainFunction

\* C13's case: two classes of two members each have been translated
C13_Witness ==
    /\ Succeeded /\ Len(SourceDeclarations(tokens, 1)) = 2
    /\ Emitted(<<" ", " ", " ", " ", "i", "n", "t", " ", "x", ";">>) /\ Emitted(<<" ", " ", " ", " ", "v", "o", "i", "d", " ", "f", "(", ")", " ", "{">>)
    /\ \E c \in ShapeCases : code = c[1] /\ Len(c[2]) >= 10 /\ output = Preamble \o c[2] \o MainFunction

\* the step raises an error, which ends every routine of the call stack
Raises == exc = <<>> /\ exc' # <<>>

\* C14: when a routine that translates a class body, a method body or an
\* if/else, while or for block ends, by returning or by raising an error, the
\* indent is the one it began with; the indent is never negative and is 0
\* when the translation succeeds.
C14_IndentRestored ==
    [][ /\ indent' >= 0
        /\ Succeeded' => indent' = 0
        /\ (Len(stack') < Len(stack)) => indent' = Top.base
        /\ Raises => \A i \in 1..Len(stack) : indent' = stack[i].base ]_vars

\* C15: during one call no step of the parser moves the cursor back or past
\* the end of the tokens, and every line of the buffer stays as it is and
\* where it is while lines are added after it.
C15_ForwardAndAppendOnly ==
    [][ phase = "parse" =>
          /\ pos' >= pos
          /\ pos' <= Len(tokens)
          /\ Len(output') >= Len(output)
          /\ SubSeq(output', 1, Len(output)) = output ]_vars

\* C15's case: a translation has come to its end with the cursor on the last
\* token's far side and a buffer longer than the preamble and main()
C15_Witness ==
    Succeeded /\ pos = Len(tokens) /\ pos > 8 /\ Len(output) > Len(Preamble) + Len(MainFunction) + 4
====
